---- MODULE Spec2Model ----
(***************************************************************************)
(* Frame scheduler (src/src/frame.cpp) and sample loop                     *)
(* (src/src/speechWaveGenerator.cpp) of the Manatu formant synthesizer.    *)
(*                                                                         *)
(* double values are modelled as exact rationals <<n, d>> (d > 0, lowest   *)
(* terms); d = 0 encodes the IEEE specials: <<0,0>> NaN, <<1,0>> +Inf,     *)
(* <<-1,0>> -Inf.  unsigned int is modelled with modulus UIntMax + 1.      *)
(***************************************************************************)
EXTENDS Integers, Sequences, FiniteSets, TLC

\* ------------------------------------------------------------------ bounds
\* Largest value of the model's unsigned int (the counter wraps past it).
UIntMax == 7
\* queueFrame calls explored per behaviour.
MaxQueued == 3
\* Wrap-arounds of sampleCounter explored while nothing is pending or fading.
MaxWraps == 1

\* ------------------------------------------------------------ double values
\* Sums and products take their operands by value: RAdd and RMul apply a
\* function to the values of their arguments.
NaN == <<0, 0>>
PosInf == <<1, 0>>
NegInf == <<-1, 0>>

Abs(n) == IF n < 0 THEN -n ELSE n
Sgn(n) == IF n < 0 THEN -1 ELSE IF n > 0 THEN 1 ELSE 0

RECURSIVE GCD(_, _)
GCD(a, b) == IF b = 0 THEN a ELSE GCD(b, a % b)

\* The rational n/d (d # 0) in lowest terms with a positive denominator.
Norm(n, d) ==
    LET g == GCD(Abs(n), Abs(d))
        s == IF d < 0 THEN -1 ELSE 1
    IN  <<(s * n) \div g, (s * d) \div g>>

R(n) == <<n, 1>>
IsNaN(x) == x = NaN
IsInf(x) == x[2] = 0 /\ x[1] # 0
IsFinite(x) == x[2] # 0

RNeg(a) == <<-a[1], a[2]>>

RAdd(x, y) ==
    LET add[a \in Int \X Int, b \in Int \X Int] ==
            IF IsNaN(a) \/ IsNaN(b) THEN NaN
            ELSE IF IsInf(a) /\ IsInf(b) THEN (IF a = b THEN a ELSE NaN)
            ELSE IF IsInf(a) THEN a
            ELSE IF IsInf(b) THEN b
            ELSE LET g == GCD(a[2], b[2])
                 IN  Norm(a[1] * (b[2] \div g) + b[1] * (a[2] \div g),
                          (a[2] \div g) * b[2])
    IN  add[x, y]

RSub(a, b) == RAdd(a, RNeg(b))

RMul(x, y) ==
    LET mul[a \in Int \X Int, b \in Int \X Int] ==
            IF IsNaN(a) \/ IsNaN(b) THEN NaN
            ELSE IF IsInf(a) \/ IsInf(b)
                 THEN (IF a[1] = 0 \/ b[1] = 0 THEN NaN
                       ELSE <<Sgn(a[1]) * Sgn(b[1]), 0>>)
            ELSE Norm(a[1] * b[1], a[2] * b[2])
    IN  mul[x, y]

\* a / k for an integer k > 0 (every division of the scheduler is by a count >= 1).
RDivInt(a, k) == IF IsFinite(a) THEN Norm(a[1], a[2] * k) ELSE a

\* a < b on doubles: false whenever an operand is NaN.
RLess(a, b) ==
    IF IsNaN(a) \/ IsNaN(b) THEN FALSE
    ELSE IF IsInf(a) \/ IsInf(b)
         THEN (IF IsInf(a) /\ IsInf(b) THEN a[1] < b[1]
               ELSE IF IsInf(a) THEN a[1] < 0 ELSE b[1] > 0)
    ELSE a[1] * b[2] < b[1] * a[2]

\* fabs(a), and a <= b on doubles (false whenever an operand is NaN).
RAbs(a) == IF a[1] < 0 THEN RNeg(a) ELSE a
RLeq(a, b) == ~IsNaN(a) /\ ~IsNaN(b) /\ (a = b \/ RLess(a, b))

\* ------------------------------------------------------------------ frames
\* The parameters that step instantly during a crossfade.
Whitelist ==
    {"burstAmplitude", "burstDuration", "fricationAmplitude", "noiseFilterFreq",
     "noiseFilterBw", "parallelAntiFreq", "trillRate", "trillDepth",
     "burstFilterFreq", "burstFilterBw", "burstNoiseColor"}

\* speechPlayer_frame_t: the whitelisted fields, the fields the scheduler names,
\* and cf1 standing for the remaining smoothstep-interpolated fields.
Params ==
    Whitelist \cup {"voicePitch", "endVoicePitch", "midVoicePitch",
                    "preFormantGain", "cf1"}

\* A value-initialised frame (curFrame(), new frameRequest_t()).
ZeroFrame == [p \in Params |-> R(0)]

\* The frame of a request allocated by "new frameRequest_t" and not yet written.
UninitFrame == [p \in Params |-> NaN]

\* Frames the producer passes to queueFrame.
FrameA ==
    [p \in Params |->
        CASE p = "voicePitch" -> R(4)
          [] p = "endVoicePitch" -> R(6)
          [] p = "midVoicePitch" -> R(0)
          [] p = "preFormantGain" -> R(1)
          [] p = "cf1" -> R(2)
          [] OTHER -> R(0)]

FrameB ==
    [p \in Params |->
        CASE p = "voicePitch" -> R(6)
          [] p = "endVoicePitch" -> R(2)
          [] p = "midVoicePitch" -> R(8)
          [] p = "preFormantGain" -> R(1)
          [] p = "cf1" -> R(6)
          [] p = "burstDuration" -> Norm(1, 4)
          [] p = "noiseFilterFreq" -> R(8)
          [] p = "noiseFilterBw" -> R(2)
          [] p = "parallelAntiFreq" -> R(3)
          [] p = "trillRate" -> R(5)
          [] p = "burstFilterFreq" -> R(4)
          [] p = "burstFilterBw" -> R(2)
          [] OTHER -> R(1)]

\* A frame with a level pitch: no contour, voicePitch = endVoicePitch, so both
\* pitch increments are 0.
FrameF ==
    [p \in Params |->
        CASE p = "voicePitch" -> R(4)
          [] p = "endVoicePitch" -> R(4)
          [] p = "midVoicePitch" -> R(0)
          [] p = "preFormantGain" -> R(1)
          [] p = "cf1" -> R(2)
          [] OTHER -> R(0)]

\* Two level-pitch frames whose cf1 values differ by more than the significand
\* of the reduced double holds (16 - 9/8 = 14.875).
FrameG == [FrameF EXCEPT !["cf1"] = R(16)]
FrameH == [FrameF EXCEPT !["cf1"] = <<9, 8>>]

\* An invalid frame: FrameA with NaN in a smoothstep-interpolated field and in
\* a field that steps instantly.
FrameN == [FrameA EXCEPT !["cf1"] = NaN, !["burstAmplitude"] = NaN]

\* The frame argument of queueFrame: a pointer to a frame, or NULL.
NullPtr == "NULL"
FrameOf(arg) ==
    CASE arg = "A" -> FrameA
      [] arg = "N" -> FrameN
      [] arg = "F" -> FrameF
      [] arg = "G" -> FrameG
      [] arg = "H" -> FrameH
      [] OTHER -> FrameB

\* ------------------------------------------------------------ interpolation
\* smoothstep of utils.h at t = k/n: the cubic t*t*(3 - 2t), or the quintic
\* t*t*t*(t*(6t - 15) + 10) of the later revision.
smoothstepSquare(variant, t) == RMul(t, t)
smoothstep(variant, t) ==
    IF variant = "cubic"
    THEN RMul(RMul(t, t), RSub(R(3), RMul(R(2), t)))
    ELSE RMul(RMul(RMul(t, t), t),
              RAdd(RMul(t, RSub(RMul(t, R(6)), R(15))), R(10)))

calculateValueAtFadePosition(variant, oldVal, newVal, curFadeRatio) ==
    IF IsNaN(newVal) THEN oldVal
    ELSE RAdd(oldVal, RMul(RSub(newVal, oldVal), smoothstep(variant, curFadeRatio)))

\* ---------------------------------------------------- rounded interpolation
\* The same arithmetic with the rounding of IEEE doubles, the significand
\* reduced from 53 bits to MantissaBits: every operation returns the
\* representable value nearest to the exact result, ties to even.
MantissaBits == 4

Pow2(k) ==
    LET pow[n \in Nat] == IF n = 0 THEN 1 ELSE 2 * pow[n - 1]
    IN  pow[k]

\* The integer nearest to the rational a >= 0, ties to even.
RoundHalfEven(a) ==
    LET q == a[1] \div a[2]
        r == a[1] % a[2]
    IN  IF 2 * r < a[2] THEN q
        ELSE IF 2 * r > a[2] THEN q + 1
        ELSE IF q % 2 = 0 THEN q ELSE q + 1

\* The double nearest to x.
Fl(x) ==
    LET scale[a \in Int \X Int, e \in Int] ==
            \* a * 2^e = |x|
            IF RLeq(R(Pow2(MantissaBits)), a) THEN scale[RDivInt(a, 2), e + 1]
            ELSE IF RLess(a, R(Pow2(MantissaBits - 1))) THEN scale[RMul(a, R(2)), e - 1]
            ELSE IF e >= 0 THEN R(RoundHalfEven(a) * Pow2(e))
            ELSE Norm(RoundHalfEven(a), Pow2(-e))
    IN  IF ~IsFinite(x) \/ x[1] = 0 THEN x
        ELSE IF x[1] < 0 THEN RNeg(scale[RAbs(x), 0])
        ELSE scale[x, 0]

FlAdd(a, b) == Fl(RAdd(a, b))
FlSub(a, b) == Fl(RSub(a, b))
FlMul(a, b) == Fl(RMul(a, b))

smoothstepFl(variant, t) ==
    IF variant = "cubic"
    THEN FlMul(FlMul(t, t), FlSub(R(3), FlMul(R(2), t)))
    ELSE FlMul(FlMul(FlMul(t, t), t),
               FlAdd(FlMul(t, FlSub(FlMul(t, R(6)), R(15))), R(10)))

calculateValueAtFadePositionFl(variant, oldVal, newVal, curFadeRatio) ==
    IF IsNaN(newVal) THEN oldVal
    ELSE FlAdd(oldVal, FlMul(FlSub(newVal, oldVal), smoothstepFl(variant, curFadeRatio)))

\* --------------------------------------------------------------- requests
Max(a, b) == IF a > b THEN a ELSE b

\* frameRequest_t as built by queueFrame from its arguments.  id stands for the
\* address of the allocation.  A request built from a NULL frame leaves frame,
\* voicePitchInc and voicePitchInc2 unwritten.
MakeRequest(arg, minNumSamples, numFadeSamples, userIndex, id) ==
    LET m == Max(minNumSamples, 1)
        f == Max(numFadeSamples, 1)
        frame == FrameOf(arg)
        halfSamples == m \div 2
    IN  IF arg # NullPtr
        THEN [id |-> id, minNumSamples |-> m, numFadeSamples |-> f,
              NULLFrame |-> FALSE, frame |-> frame,
              hasContour |-> RLess(R(0), frame["midVoicePitch"]),
              voicePitchInc |->
                  IF RLess(R(0), frame["midVoicePitch"])
                  THEN (IF halfSamples > 0
                        THEN RDivInt(RSub(frame["midVoicePitch"], frame["voicePitch"]),
                                     halfSamples)
                        ELSE R(0))
                  ELSE RDivInt(RSub(frame["endVoicePitch"], frame["voicePitch"]), m),
              voicePitchInc2 |->
                  IF RLess(R(0), frame["midVoicePitch"]) /\ halfSamples > 0
                  THEN RDivInt(RSub(frame["endVoicePitch"], frame["midVoicePitch"]),
                               m - halfSamples)
                  ELSE R(0),
              userIndex |-> userIndex]
        ELSE [id |-> id, minNumSamples |-> m, numFadeSamples |-> f,
              NULLFrame |-> TRUE, frame |-> UninitFrame,
              hasContour |-> FALSE,
              voicePitchInc |-> NaN, voicePitchInc2 |-> NaN,
              userIndex |-> userIndex]

\* A null frameRequest_t*.
NullRequest ==
    [id |-> -1, minNumSamples |-> 0, numFadeSamples |-> 0, NULLFrame |-> FALSE,
     frame |-> ZeroFrame, hasContour |-> FALSE,
     voicePitchInc |-> R(0), voicePitchInc2 |-> R(0), userIndex |-> 0]
IsNull(ptr) == ptr.id = -1

\* The request the constructor puts in the old slot: new frameRequest_t() with
\* NULLFrame set.
InitialOldRequest ==
    [id |-> 0, minNumSamples |-> 0, numFadeSamples |-> 0, NULLFrame |-> TRUE,
     frame |-> ZeroFrame, hasContour |-> FALSE,
     voicePitchInc |-> R(0), voicePitchInc2 |-> R(0), userIndex |-> 0]

\* FrameManagerImpl() : curFrame(), curFrameIsNULL(true), sampleCounter(0),
\* newFrameRequest(NULL), lastUserIndex(-1).
NewFrameManager ==
    [frameRequestQueue |-> <<>>,
     oldFrameRequest |-> InitialOldRequest,
     newFrameRequest |-> NullRequest,
     curFrame |-> ZeroFrame,
     curFrameIsNULL |-> TRUE,
     sampleCounter |-> 0,
     lastUserIndex |-> -1]

\* ------------------------------------------------------- updateCurrentFrame
\* The branch updateCurrentFrame takes on scheduler state s.
UpdateBranchEarly(s) ==
    LET sc == (s.sampleCounter + 1) % (UIntMax + 1)
    IN  IF ~IsNull(s.newFrameRequest)
        THEN (IF sc > s.newFrameRequest.numFadeSamples THEN "promote" ELSE "interpolate")
        ELSE IF sc >= s.oldFrameRequest.minNumSamples
             THEN (IF s.frameRequestQueue # <<>> THEN "dequeue" ELSE "starve")
             ELSE "hold"
UpdateBranch(s) ==
    LET sc == (s.sampleCounter + 1) % (UIntMax + 1)
    IN  IF ~IsNull(s.newFrameRequest)
        THEN (IF sc > s.newFrameRequest.numFadeSamples THEN "promote" ELSE "interpolate")
        ELSE IF sc > s.oldFrameRequest.minNumSamples
             THEN (IF s.frameRequestQueue # <<>> THEN "dequeue" ELSE "starve")
             ELSE "hold"

\* One parameter of curFrame during a crossfade (the loop body, lines 55-65).
FadeParamAllSmooth(variant, i, oldFrame, newFrame, curFadeRatio) ==
    calculateValueAtFadePosition(variant, oldFrame[i], newFrame[i], curFadeRatio)
FadeParam(variant, i, oldFrame, newFrame, curFadeRatio) ==
    IF i \in Whitelist
    THEN newFrame[i]
    ELSE calculateValueAtFadePosition(variant, oldFrame[i], newFrame[i], curFadeRatio)

\* frameRequestQueue.front() and the queue after pop() (lines 71-72).
QueueBack(queue) == queue[Len(queue)]
QueueFront(queue) == Head(queue)
QueueRest(queue) == Tail(queue)

\* The request popped from the queue, as adjusted before the fade starts
\* (lines 73-77 and 85), and the old request as adjusted (lines 78-81).
DequeuedNewAudible(s) ==
    LET q == QueueFront(s.frameRequestQueue)
        old == s.oldFrameRequest
        n1 == IF q.NULLFrame
              THEN [q EXCEPT !.frame = [old.frame EXCEPT
                                            !["voicePitch"] = s.curFrame["voicePitch"]],
                             !.voicePitchInc = R(0)]
              ELSE q
    IN  [n1 EXCEPT !.frame["voicePitch"] =
            RAdd(@, RMul(n1.voicePitchInc, R(n1.numFadeSamples)))]
DequeuedNewUnadjusted(s) ==
    LET q == QueueFront(s.frameRequestQueue)
        old == s.oldFrameRequest
    IN  IF q.NULLFrame
        THEN [q EXCEPT !.frame = [old.frame EXCEPT
                                      !["preFormantGain"] = R(0),
                                      !["voicePitch"] = s.curFrame["voicePitch"]],
                       !.voicePitchInc = R(0)]
        ELSE q
DequeuedNew(s) ==
    LET q == QueueFront(s.frameRequestQueue)
        old == s.oldFrameRequest
        n1 == IF q.NULLFrame
              THEN [q EXCEPT !.frame = [old.frame EXCEPT
                                            !["preFormantGain"] = R(0),
                                            !["voicePitch"] = s.curFrame["voicePitch"]],
                             !.voicePitchInc = R(0)]
              ELSE q
    IN  [n1 EXCEPT !.frame["voicePitch"] =
            RAdd(@, RMul(n1.voicePitchInc, R(n1.numFadeSamples)))]

DequeuedOldKept(s) == s.oldFrameRequest
DequeuedOld(s) ==
    LET q == QueueFront(s.frameRequestQueue)
        old == s.oldFrameRequest
    IN  IF ~q.NULLFrame /\ old.NULLFrame
        THEN [old EXCEPT !.frame = [q.frame EXCEPT !["preFormantGain"] = R(0)]]
        ELSE old

\* getLastIndex().
getLastIndex(s) == s.lastUserIndex

\* lastUserIndex after request q has been dequeued (line 83).
IndexAfterDequeueUnguarded(lastUserIndex, q) == q.userIndex
IndexAfterDequeue(lastUserIndex, q) ==
    IF q.userIndex # -1 THEN q.userIndex ELSE lastUserIndex

updateCurrentFrame(variant, s) ==
    LET sc == (s.sampleCounter + 1) % (UIntMax + 1)
        old == s.oldFrameRequest
        new == s.newFrameRequest
        b == UpdateBranch(s)
    IN  CASE b = "promote" ->
               [s EXCEPT !.sampleCounter = sc,
                         !.oldFrameRequest = new,
                         !.newFrameRequest = NullRequest]
          [] b = "interpolate" ->
               [s EXCEPT !.sampleCounter = sc,
                         !.curFrame =
                             [i \in Params |->
                                 FadeParam(variant, i, old.frame, new.frame,
                                           Norm(sc, new.numFadeSamples))]]
          [] b = "dequeue" ->
               [s EXCEPT !.curFrameIsNULL = FALSE,
                         !.newFrameRequest = DequeuedNew(s),
                         !.oldFrameRequest = DequeuedOld(s),
                         !.frameRequestQueue = QueueRest(s.frameRequestQueue),
                         !.lastUserIndex =
                             IndexAfterDequeue(@, QueueFront(s.frameRequestQueue)),
                         !.sampleCounter = 0]
          [] b = "starve" ->
               [s EXCEPT !.sampleCounter = sc, !.curFrameIsNULL = TRUE]
          [] OTHER ->
               LET inc == IF old.hasContour /\ sc > old.minNumSamples \div 2
                          THEN old.voicePitchInc2
                          ELSE old.voicePitchInc
                   pitch == RAdd(s.curFrame["voicePitch"], inc)
               IN  [s EXCEPT !.sampleCounter = sc,
                             !.curFrame["voicePitch"] = pitch,
                             !.oldFrameRequest.frame["voicePitch"] = pitch]

\* updateCurrentFrame with the crossfade computed in rounded arithmetic (the
\* pitch increments of the frames it is used with are 0, so the other branches
\* round nothing).
FadeParamFl(variant, i, oldFrame, newFrame, curFadeRatio) ==
    IF i \in Whitelist
    THEN newFrame[i]
    ELSE calculateValueAtFadePositionFl(variant, oldFrame[i], newFrame[i], curFadeRatio)

updateCurrentFrameFl(variant, s) ==
    LET sc == (s.sampleCounter + 1) % (UIntMax + 1)
        exact == updateCurrentFrame(variant, s)
    IN  IF UpdateBranch(s) = "interpolate"
        THEN [exact EXCEPT !.curFrame =
                 [i \in Params |->
                     FadeParamFl(variant, i, s.oldFrameRequest.frame,
                                 s.newFrameRequest.frame,
                                 Fl(Norm(sc, s.newFrameRequest.numFadeSamples)))]]
        ELSE exact

\* --------------------------------------------------------------- queueFrame
\* The statements of the purge block, in program order (lines 143-150).
PurgeDrain(s) == [s EXCEPT !.frameRequestQueue = <<>>]
PurgeCounter(s) == [s EXCEPT !.sampleCounter = s.oldFrameRequest.minNumSamples]
PurgeNullFlag(s) ==
    [s EXCEPT !.oldFrameRequest.NULLFrame = s.newFrameRequest.NULLFrame]
PurgeCopyFrameSkipped(s) == s
PurgeCopyFrame(s) == [s EXCEPT !.oldFrameRequest.frame = s.curFrame]
PurgeDeleteNew(s) == [s EXCEPT !.newFrameRequest = NullRequest]

Purge(s) ==
    LET s2 == PurgeCounter(PurgeDrain(s))
    IN  IF ~IsNull(s2.newFrameRequest)
        THEN PurgeDeleteNew(PurgeCopyFrame(PurgeNullFlag(s2)))
        ELSE s2

\* frameRequestQueue.push (line 152).
Push(s, req) == [s EXCEPT !.frameRequestQueue = Append(@, req)]

queueFrame(s, arg, minNumSamples, numFadeSamples, userIndex, purgeQueue, id) ==
    Push(IF purgeQueue THEN Purge(s) ELSE s,
         MakeRequest(arg, minNumSamples, numFadeSamples, userIndex, id))

\* --------------------------------------------------------------- ownership
\* The frameRequest_t objects, named by their ids: those allocated and not
\* deleted (live), those deleted (freed), whether a delete hit an object that
\* was not live and whether a statement dereferenced one that was not live.
\* The constructor allocates the first old request (id 0).
NewHeap ==
    [live |-> {0}, freed |-> {}, doubleFree |-> FALSE, useAfterFree |-> FALSE,
     destroyed |-> FALSE]

\* The pointers the scheduler holds, in the order queue, new slot, old slot.
References(s) ==
    [k \in 1..Len(s.frameRequestQueue) |-> s.frameRequestQueue[k].id]
        \o (IF IsNull(s.newFrameRequest) THEN <<>> ELSE <<s.newFrameRequest.id>>)
        \o (IF IsNull(s.oldFrameRequest) THEN <<>> ELSE <<s.oldFrameRequest.id>>)
Range(f) == {f[k] : k \in DOMAIN f}

\* The objects each delete statement frees: the promotion (line 47), the purge
\* (lines 143 and 148) and the destructor (lines 168-170).
PromoteFreesNew(s) == {s.newFrameRequest.id}
PromoteFrees(s) == {s.oldFrameRequest.id}
PurgeFrees(s) ==
    {s.frameRequestQueue[k].id : k \in 1..Len(s.frameRequestQueue)}
        \cup (IF IsNull(s.newFrameRequest) THEN {} ELSE {s.newFrameRequest.id})
DestroyFrees(s) == Range(References(s))

\* The objects updateCurrentFrame dereferences in state s, and those the purge
\* block of queueFrame does.
AccessedByUpdate(s) ==
    LET b == UpdateBranch(s)
    IN  (IF IsNull(s.newFrameRequest) THEN {s.oldFrameRequest.id}
         ELSE {s.newFrameRequest.id})
            \cup (IF b \in {"interpolate", "promote"} THEN {s.oldFrameRequest.id} ELSE {})
            \cup (IF b = "dequeue" THEN {QueueFront(s.frameRequestQueue).id} ELSE {})
AccessedByPurge(s) == {s.oldFrameRequest.id} \cup PurgeFrees(s)

HeapNew(h, id) == [h EXCEPT !.live = @ \cup {id}]
HeapAccess(h, ids) == [h EXCEPT !.useAfterFree = @ \/ ~(ids \subseteq h.live)]
HeapFree(h, ids) ==
    [h EXCEPT !.live = @ \ ids,
              !.freed = @ \cup ids,
              !.doubleFree = @ \/ ~(ids \subseteq h.live)]

HeapAfterUpdate(h, s) ==
    HeapFree(HeapAccess(h, AccessedByUpdate(s)),
             IF UpdateBranch(s) = "promote" THEN PromoteFrees(s) ELSE {})
HeapAfterQueue(h, s, purgeQueue, id) ==
    IF purgeQueue
    THEN HeapFree(HeapAccess(HeapNew(h, id), AccessedByPurge(s)), PurgeFrees(s))
    ELSE HeapNew(h, id)
HeapAfterDestroy(h, s) == [HeapFree(h, DestroyFrees(s)) EXCEPT !.destroyed = TRUE]

\* ------------------------------------------------------------ observations
\* A count of calls, kept up to UIntMax + 1 (no request asks for more).
Sat(n) == IF n > UIntMax THEN UIntMax + 1 ELSE n

\* What queueFrame was given for a request: the frame's pitch values as passed
\* (before line 85 adjusts voicePitch) and the request's counts and increments.
RequestInfo(q) ==
    [id |-> q.id, NULLFrame |-> q.NULLFrame,
     voicePitch |-> q.frame["voicePitch"],
     midVoicePitch |-> q.frame["midVoicePitch"],
     endVoicePitch |-> q.frame["endVoicePitch"],
     minNumSamples |-> q.minNumSamples, numFadeSamples |-> q.numFadeSamples,
     hasContour |-> q.hasContour,
     voicePitchInc |-> q.voicePitchInc, voicePitchInc2 |-> q.voicePitchInc2]

\* Before any request is dequeued.
NoObservation ==
    [calls |-> 0, holds |-> 0, purged |-> FALSE, promoted |-> FALSE,
     req |-> RequestInfo(NullRequest), atDequeue |-> ZeroFrame, oldWasNull |-> FALSE,
     gap |-> 0, gapHolds |-> 0, gapMin |-> 0, gapPurged |-> FALSE,
     gapPromoted |-> FALSE]

\* The observations after one getCurrentFrame call on scheduler state s:
\* calls counts the calls since the last dequeue, holds the hold-branch calls
\* since the last promotion; a dequeue keeps what was counted for the request
\* before (gap...), the frame the call returns and the request as queued.
ObsAfterCall(s, o) ==
    LET b == UpdateBranch(s)
    IN  CASE b = "dequeue" ->
               [calls |-> 0, holds |-> 0, purged |-> FALSE, promoted |-> FALSE,
                req |-> RequestInfo(QueueFront(s.frameRequestQueue)),
                atDequeue |-> s.curFrame,
                oldWasNull |-> s.oldFrameRequest.NULLFrame,
                gap |-> o.calls, gapHolds |-> o.holds,
                gapMin |-> s.oldFrameRequest.minNumSamples,
                gapPurged |-> o.purged, gapPromoted |-> o.promoted]
          [] b = "promote" ->
               [o EXCEPT !.calls = Sat(@ + 1), !.holds = 0, !.promoted = TRUE]
          [] b = "hold" ->
               [o EXCEPT !.calls = Sat(@ + 1), !.holds = Sat(@ + 1)]
          [] OTHER ->
               [o EXCEPT !.calls = Sat(@ + 1)]

\* The observations after a queueFrame call.
ObsAfterQueue(o, purgeQueue) == [o EXCEPT !.purged = @ \/ purgeQueue]

\* ------------------------------------------------------------ sample output
\* The clamp bound of generate and the scale applied before the limiter.
SampleMax == 32767
OutputScale == 4000

\* std::min and std::max on doubles: min(a, b) is b when b < a, else a;
\* max(a, b) is b when a < b, else a.
StdMin(a, b) == IF RLess(b, a) THEN b ELSE a
StdMax(a, b) == IF RLess(a, b) THEN b ELSE a

\* max(-32767.0, min(32767.0, limited)) (line 1017).
ClampWide(limited) == StdMax(R(-(SampleMax + 1)), StdMin(R(SampleMax + 1), limited))
Clamp(limited) == StdMax(R(-SampleMax), StdMin(R(SampleMax), limited))

\* lrint in the default rounding mode: nearest integer, ties to even.
lrint(x) ==
    LET fl == x[1] \div x[2]
        twice == 2 * (x[1] - fl * x[2])
    IN  IF twice < x[2] THEN fl
        ELSE IF twice > x[2] THEN fl + 1
        ELSE IF fl % 2 = 0 THEN fl ELSE fl + 1

\* (short) of an integer: the value modulo 2^16.
ToShort(v) == ((v + 32768) % 65536) - 32768

\* PeakLimiter::limit: input * gain.  The gain state is any value of (0, 1]:
\* its exponential smoothing is not computed here.
limit(input, gain) == RMul(input, gain)

\* sampleBuf[i].value for a filter-graph output `out` and limiter gain `gain`
\* (lines 1015-1017).
SampleValue(out, gain) ==
    ToShort(lrint(Clamp(limit(RMul(out, R(OutputScale)), gain))))

\* Values of (cascadeOut + parallelOut) * outputGain the filter graph may give:
\* the graph is not computed here, so every double is possible.
OutValues == {NaN, PosInf, NegInf, Norm(-65533, 4000)}
GainValues == {R(1), Norm(1, 2)}

\* The values one sample of the buffer can take.
Samples == {SampleValue(out, gain) : out \in OutValues, gain \in GainValues}

\* Largest sampleCount passed to generate, and the queueFrame calls explored
\* together with generate.
MaxGen == 2
MaxGenQueued == 2

\* ------------------------------------------------------------------ burst
\* BurstGenerator(sr): burstPhase(1.0), lastBurstAmp(0), burstActive(false) and
\* the latched parameters 0.
NewBurstGenerator ==
    [burstPhase |-> R(1), lastBurstAmp |-> R(0), burstActive |-> FALSE,
     activeBurstAmp |-> R(0), activeBurstDuration |-> R(0),
     activeFilterFreq |-> R(0), activeFilterBw |-> R(0), activeNoiseColor |-> R(0)]

\* The sample rate the generator is built with, scaled down so that a burst
\* lasts a few samples (5 ms = 2 samples).
SampleRate == 400

\* The trigger test of getNext (line 811): the amplitude was <= 0 on the call
\* before and is > 0 now.
BurstTriggeredAlways(b, burstAmplitude) == RLess(R(0), burstAmplitude)
BurstTriggeredIdle(b, burstAmplitude) ==
    /\ b.burstPhase = R(1)
    /\ RLeq(b.lastBurstAmp, R(0))
    /\ RLess(R(0), burstAmplitude)
BurstTriggered(b, burstAmplitude) ==
    RLeq(b.lastBurstAmp, R(0)) /\ RLess(R(0), burstAmplitude)

\* Lines 811-821: the parameters latched on a trigger, then lastBurstAmp.
\* args is <<burstAmplitude, burstDuration, filterFreq, filterBw, noiseColor>>.
BurstLatch(b, args) ==
    LET b1 == IF BurstTriggered(b, args[1])
              THEN [b EXCEPT !.burstPhase = R(0),
                             !.burstActive = TRUE,
                             !.activeBurstAmp = args[1],
                             !.activeBurstDuration = args[2],
                             !.activeFilterFreq = args[3],
                             !.activeFilterBw = args[4],
                             !.activeNoiseColor = args[5]]
              ELSE b
    IN  [b1 EXCEPT !.lastBurstAmp = args[1]]

\* The test of line 823.
BurstSilent(b) == ~b.burstActive \/ RLeq(R(1), b.burstPhase)

\* durationSamples (lines 830-831) for a burst duration parameter d.
DurationSamples(d) ==
    LET durationMs == RAdd(R(5), RMul(d, R(15)))
    IN  RMul(RDivInt(durationMs, 1000), R(SampleRate))

\* burstPhase after lines 833-834.
NextBurstPhase(b) ==
    LET ds == DurationSamples(b.activeBurstDuration)
        p == RAdd(b.burstPhase, Norm(ds[2], ds[1]))
    IN  IF RLess(R(1), p) THEN R(1) ELSE p

\* What one sample of the burst is computed from (lines 832 and 839-854): the
\* phase in the envelope exp(-6 * burstPhase) and the parameters read.  The
\* noise value and the filter state do not feed back into the fields below.
SilentSample == [silent |-> TRUE, phase |-> R(1), params |-> <<>>]
BurstSample(b) ==
    [silent |-> FALSE, phase |-> b.burstPhase,
     params |-> <<b.activeBurstAmp, b.activeBurstDuration, b.activeFilterFreq,
                  b.activeFilterBw, b.activeNoiseColor>>]

\* getNext: the generator after the call and the sample it returns.
getNext(b, args) ==
    LET b1 == BurstLatch(b, args)
    IN  IF BurstSilent(b1)
        THEN [gen |-> [b1 EXCEPT !.burstActive = FALSE], out |-> SilentSample]
        ELSE [gen |-> [b1 EXCEPT !.burstPhase = NextBurstPhase(b1)],
              out |-> BurstSample(b1)]

\* What has been seen of the generator: the arguments of the last call (args),
\* whether they made a rising edge of burstAmplitude (edge), the arguments at
\* the last rising edge (latched, <<>> before the first), the sample the last
\* call returned (out), whether that call found a burst running (running) and
\* the calls since the last rising edge, that call included, counted up to
\* MaxBurstSteps.
MaxBurstSteps == 6
NoBurstUsed ==
    [latched |-> <<>>, args |-> <<>>, edge |-> FALSE, out |-> SilentSample,
     running |-> FALSE, steps |-> 0]
BurstUsedAfter(u, b, args) ==
    LET edge == RLeq(b.lastBurstAmp, R(0)) /\ RLess(R(0), args[1])
    IN  [latched |-> IF edge THEN args ELSE u.latched,
         args |-> args,
         edge |-> edge,
         out |-> getNext(b, args).out,
         running |-> b.burstActive /\ RLess(b.burstPhase, R(1)),
         steps |-> IF edge THEN 1
                   ELSE IF u.steps < MaxBurstSteps THEN u.steps + 1 ELSE u.steps]

\* ------------------------------------------------------ output conditioning
\* The thresholds of the silence handling in generate (lines 990 and 994).
PreGainHigh == Norm(1, 100)
PreGainLow == Norm(5, 1000)

\* The drain test (line 990) and the hard-reset test (line 994) for the
\* effective pre-gain of this sample and of the sample before.
DrainTest(preGain) == RLess(preGain, PreGainHigh)
ResetTest(prev, preGain) == RLess(prev, PreGainLow) /\ RLess(PreGainHigh, preGain)

\* PeakLimiter: threshold 32767 * 10^(-3/20), rounded to an integer, and the
\* three smoothing coefficients 1 - exp(-1 / (tau * sr)), each in (0, 1) with
\* attack > fast release > release; exp is not a rational function, so the
\* coefficients are given rational values in that order.
Threshold == 23197
AttackAlpha == Norm(1, 2)
FastReleaseAlpha == Norm(1, 4)
ReleaseAlpha == Norm(1, 8)

\* PeakLimiter(sr): gain = 1.0, fastRelease = false.
NewPeakLimiter == [gain |-> R(1), fastRelease |-> FALSE]

setFastRelease(l, fast) == [l EXCEPT !.fastRelease = fast]

\* The test of limit that selects the attack branch (line 941).
AttackTestOnOutput(l, absIn) == RLess(R(Threshold), RMul(absIn, l.gain))
AttackTest(l, absIn) == RLess(R(Threshold), absIn)

\* limit(input): the limiter after the call (lines 940-947); the value
\* returned is input * gain.
limitGain(l, input) ==
    LET absIn == RAbs(input)
    IN  IF AttackTest(l, absIn)
        THEN LET targetGain == RMul(R(Threshold), <<absIn[2], absIn[1]>>)
             IN  [l EXCEPT !.gain = RAdd(@, RMul(AttackAlpha, RSub(targetGain, @)))]
        ELSE LET alpha == IF l.fastRelease THEN FastReleaseAlpha ELSE ReleaseAlpha
             IN  [l EXCEPT !.gain = RAdd(@, RMul(alpha, RSub(R(1), @)))]

\* What has been seen of the last sample: its effective pre-gain and its
\* scaled output (the limiter's input), whether the resonators were drained
\* and hard-reset, the limiter's gain before the sample, and whether, before
\* the sample, the pre-gain had been below PreGainLow with no sample above
\* PreGainHigh since (armed); samples counts the samples.
NoTailSeen ==
    [samples |-> 0, preGain |-> R(0), scaled |-> R(0), drained |-> FALSE,
     reset |-> FALSE, gainBefore |-> R(1), armedBefore |-> FALSE, armed |-> FALSE]
TailSeenAfter(u, prev, l, preGain, scaled) ==
    [samples |-> u.samples + 1,
     preGain |-> preGain,
     scaled |-> scaled,
     drained |-> DrainTest(preGain),
     reset |-> ResetTest(prev, preGain),
     gainBefore |-> l.gain,
     armedBefore |-> u.armed,
     armed |-> IF RLess(preGain, PreGainLow) THEN TRUE
               ELSE IF RLess(PreGainHigh, preGain) THEN FALSE
               ELSE u.armed]

\* --------------------------------------------------------------- resonators
\* 1 / x for a finite x # 0.
RInv(x) == Norm(x[2], x[1])

\* tan(pi * q) at the angles the explored frequencies give.
TanPi(q) ==
    CASE q = R(0) -> R(0)
      [] q = Norm(1, 4) -> R(1)
      [] q = Norm(3, 4) -> R(-1)

\* CASCADE_BW_COMPENSATION.
CascadeBwCompensation == Norm(1554, 1000)

\* ZDFResonator(sampleRate, anti, allPole): the fields frequency and bandwidth
\* are not written by the constructor (and not read before setParams writes
\* them).
NewResonator(anti, allPole) ==
    [anti |-> anti, allPole |-> allPole, setOnce |-> FALSE,
     frequency |-> NaN, bandwidth |-> NaN,
     ic1eq |-> R(0), ic2eq |-> R(0),
     g |-> R(0), a1 |-> R(1), a2 |-> R(0), a3 |-> R(0)]

\* setParams (lines 180-214).
setParams(r, frequency, bandwidth) ==
    IF ~r.setOnce \/ frequency # r.frequency \/ bandwidth # r.bandwidth
    THEN LET r1 == [r EXCEPT !.frequency = frequency, !.bandwidth = bandwidth,
                             !.setOnce = TRUE]
         IN  IF RLeq(frequency, R(0)) \/ RLeq(bandwidth, R(0))
             THEN [r1 EXCEPT !.g = R(0), !.a1 = R(1), !.a2 = R(0), !.a3 = R(0)]
             ELSE LET g0 == TanPi(RDivInt(frequency, SampleRate))
                      g == IF RLess(R(10), g0) THEN R(10) ELSE g0
                      d == RMul(bandwidth, RInv(frequency))
                      a1 == RInv(RAdd(R(1), RMul(g, RAdd(g, d))))
                      a2 == RMul(g, a1)
                      a3 == RMul(g, a2)
                  IN  [r1 EXCEPT !.g = g, !.a1 = a1, !.a2 = a2, !.a3 = a3]
    ELSE r

\* The bypass test of resonate (line 221).
BypassNever(r) == FALSE
Bypass(r) == r.g = R(0)

\* resonate after its setParams call (lines 220-245): the resonator after the
\* call and the value returned.
resonateWith(r1, in) ==
    IF Bypass(r1)
    THEN [res |-> r1, out |-> in]
    ELSE LET v3 == RSub(in, r1.ic2eq)
             v1 == RAdd(RMul(r1.a1, r1.ic1eq), RMul(r1.a2, v3))
             v2 == RAdd(r1.ic2eq,
                        RAdd(RMul(r1.a2, r1.ic1eq), RMul(r1.a3, v3)))
         IN  [res |-> [r1 EXCEPT !.ic1eq = RSub(RMul(R(2), v1), @),
                                 !.ic2eq = RSub(RMul(R(2), v2), @)],
              out |-> IF r1.anti THEN RSub(in, v1)
                      ELSE IF r1.allPole THEN v2
                      ELSE v1]

\* resonate (lines 217-246).
resonate(r, in, frequency, bandwidth) ==
    resonateWith(setParams(r, frequency, bandwidth), in)

\* ZDFResonator4thOrder(sr, allPole) and its resonate (lines 647-656).
NewResonator4thOrder(allPole) ==
    [stage1 |-> NewResonator(FALSE, allPole), stage2 |-> NewResonator(FALSE, allPole)]

resonate4thOrder(r, in, frequency, bandwidth) ==
    IF RLeq(frequency, R(0))
    THEN [res |-> r, out |-> in]
    ELSE LET bwAdjusted == RMul(bandwidth, CascadeBwCompensation)
             s1 == resonate(r.stage1, in, frequency, bwAdjusted)
             s2 == resonate(r.stage2, s1.out, frequency, bwAdjusted)
         IN  [res |-> [stage1 |-> s1.res, stage2 |-> s2.res], out |-> s2.out]

\* One resonator of each kind: bandpass, all-pole, notch, and a 4th-order one.
NewResonators ==
    [bandpass |-> NewResonator(FALSE, FALSE),
     allPole |-> NewResonator(FALSE, TRUE),
     notch |-> NewResonator(TRUE, FALSE),
     fourth |-> NewResonator4thOrder(FALSE)]
SecondOrder == {"bandpass", "allPole", "notch"}

\* The integrator states of the resonators: <<ic1eq, ic2eq>> of each
\* 2nd-order section.
Integrators(rs) ==
    [bandpass |-> <<rs.bandpass.ic1eq, rs.bandpass.ic2eq>>,
     allPole |-> <<rs.allPole.ic1eq, rs.allPole.ic2eq>>,
     notch |-> <<rs.notch.ic1eq, rs.notch.ic2eq>>,
     fourth |-> <<rs.fourth.stage1.ic1eq, rs.fourth.stage1.ic2eq,
                  rs.fourth.stage2.ic1eq, rs.fourth.stage2.ic2eq>>]

\* What has been seen of the last resonate calls (one per resonator, with the
\* same input): the arguments, the integrator states before the calls and the
\* values returned; calls counts the rounds of calls.
NoResSeen ==
    [calls |-> 0, in |-> R(0), frequency |-> R(0), bandwidth |-> R(0),
     bandwidth4 |-> R(0), before |-> Integrators(NewResonators),
     out |-> [bandpass |-> R(0), allPole |-> R(0), notch |-> R(0), fourth |-> R(0)]]

\* -------------------------------------------------------------------- state
VARIABLES
    fm,             \* the FrameManagerImpl object
    smoothVariant,  \* which revision of utils.h the build uses
    hasFrameManager,\* SpeechWaveGeneratorImpl::frameManager is not NULL
    sampleBuf,      \* the samples written by the last generate call
    genRet,         \* the value the last generate call returned (-1: no call yet)
    numQueued,      \* history: queueFrame calls so far (ids are 1..numQueued)
    dequeued,       \* history: <<id, userIndex>> of the requests popped, in order
    anyPurge,       \* history: some queueFrame call had purgeQueue set
    purgeCut,       \* history: id queued by the last purge, if it cut a crossfade
    lastStep,       \* history: the operation (and branch) of the last step
    wraps,          \* history: counted wrap-arounds of sampleCounter
    genN,           \* history: sampleCount of the last generate call
    genCalls,       \* history: getCurrentFrame calls the last generate call made
    pc,             \* the statement each thread is at
    lock,           \* the recursive_mutex of LockableObject: owner and depth
    prod,           \* queueFrame's locals: newFrameRequest and purgeQueue
    lastIndexRet,   \* the value the last getLastIndex call returned
    frameRet,       \* what the last getCurrentFrame call returned
    obs,            \* history: the request being played and the calls made for it
    burst,          \* the BurstGenerator object
    burstUsed,      \* history: the burst parameters latched and last used
    prevPreGain,    \* SpeechWaveGeneratorImpl::prevPreGain
    peakLimiter,    \* the PeakLimiter object
    tailSeen,       \* history: what the last sample's output conditioning did
    res,            \* ZDFResonator objects, one of each kind
    resSeen,        \* history: the last resonate calls
    heap,           \* history: the frameRequest_t objects allocated and freed
    fadeFrom        \* history: the old slot's frame when the last crossfade began

schedVars == <<fm, smoothVariant>>
engineVars == <<hasFrameManager, sampleBuf, genRet, genN, genCalls>>
histVars == <<numQueued, dequeued, anyPurge, purgeCut, lastStep, wraps>>
threadVars == <<pc, lock, prod, lastIndexRet, frameRet>>
fadeVars == <<obs>>
burstVars == <<burst, burstUsed>>
tailVars == <<prevPreGain, peakLimiter, tailSeen>>
resVars == <<res, resSeen>>
memVars == <<heap>>
roundVars == <<fadeFrom>>
auxVars == <<tailVars, resVars, memVars, roundVars>>
vars == <<schedVars, engineVars, histVars, threadVars, fadeVars, burstVars, auxVars>>

\* The producer (speech thread) and the consumer (audio callback).
Threads == {"producer", "consumer"}
NoLocals == [req |-> NullRequest, purgeQueue |-> FALSE]
Unlocked == [owner |-> "none", depth |-> 0]

\* The queueFrame calls the producer makes:
\* <<frame, minNumSamples, numFadeSamples, userIndex>>.
Calls ==
    {<<"A", 2, 2, 1>>,
     <<"B", 3, 2, 2>>,
     <<"B", 0, 0, -1>>,
     <<NullPtr, 1, 2, -1>>,
     <<"A", UIntMax, 1, 3>>}

\* The calls explored together with generate.
GenCalls ==
    {<<"A", 1, 1, 1>>,
     <<NullPtr, 2, 1, -1>>}

Init ==
    /\ fm = NewFrameManager
    /\ smoothVariant \in {"cubic", "quintic"}
    /\ hasFrameManager = FALSE
    /\ sampleBuf = <<>>
    /\ genRet = -1
    /\ genN = 0
    /\ genCalls = 0
    /\ numQueued = 0
    /\ dequeued = <<>>
    /\ anyPurge = FALSE
    /\ purgeCut = 0
    /\ lastStep = "create"
    /\ wraps = 0
    /\ pc = [t \in Threads |-> "idle"]
    /\ lock = Unlocked
    /\ prod = NoLocals
    /\ lastIndexRet = -1
    /\ frameRet = "none"
    /\ obs = NoObservation
    /\ burst = NewBurstGenerator
    /\ burstUsed = NoBurstUsed
    /\ prevPreGain = R(0)
    /\ peakLimiter = NewPeakLimiter
    /\ tailSeen = NoTailSeen
    /\ res = NewResonators
    /\ resSeen = NoResSeen
    /\ heap = NewHeap
    /\ fadeFrom = ZeroFrame

\* A getCurrentFrame call that wraps sampleCounter with nothing to fade or pop.
IdleWrap(s) ==
    /\ s.sampleCounter = UIntMax
    /\ IsNull(s.newFrameRequest)
    /\ (s.frameRequestQueue = <<>> \/ s.oldFrameRequest.minNumSamples = UIntMax)

\* The history after one getCurrentFrame call that takes scheduler state s to s2.
DequeuedAfter(s, s2, d) ==
    IF UpdateBranch(s) = "dequeue"
    THEN Append(d, <<s2.newFrameRequest.id, s2.newFrameRequest.userIndex>>)
    ELSE d

\* queueFrame(frame, minNumSamples, numFadeSamples, userIndex, purgeQueue), the
\* arguments drawn from `calls`.
QueueFrameFrom(calls, bound) ==
    /\ numQueued < bound
    /\ \E c \in calls, purgeQueue \in BOOLEAN :
          /\ fm' = queueFrame(fm, c[1], c[2], c[3], c[4], purgeQueue, numQueued + 1)
          /\ anyPurge' = (anyPurge \/ purgeQueue)
          /\ purgeCut' = IF purgeQueue
                         THEN (IF IsNull(fm.newFrameRequest) THEN 0 ELSE numQueued + 1)
                         ELSE purgeCut
          /\ lastStep' = IF purgeQueue THEN "purge" ELSE "queue"
    /\ numQueued' = numQueued + 1
    /\ UNCHANGED <<auxVars, fadeVars, burstVars, smoothVariant, dequeued, wraps, engineVars, threadVars>>

QueueFrame == QueueFrameFrom(Calls, MaxQueued)

\* getCurrentFrame(): updateCurrentFrame under the lock, then the pointer to
\* curFrame, or NULL when curFrameIsNULL.
CurrentFrame ==
    /\ IdleWrap(fm) => wraps < MaxWraps
    /\ fm' = updateCurrentFrame(smoothVariant, fm)
    /\ dequeued' = DequeuedAfter(fm, fm', dequeued)
    /\ lastStep' = UpdateBranch(fm)
    /\ wraps' = IF IdleWrap(fm) THEN wraps + 1 ELSE wraps
    /\ UNCHANGED <<auxVars, fadeVars, burstVars, smoothVariant, numQueued, anyPurge, purgeCut, engineVars,
                   threadVars>>

Next == QueueFrame \/ CurrentFrame

Spec == Init /\ [][Next]_vars

\* --------------------------------------------------- scheduler, observed
\* The same two operations with the observations kept.
QueueFrameObs(calls, bound) ==
    /\ numQueued < bound
    /\ \E c \in calls, purgeQueue \in BOOLEAN :
          /\ fm' = queueFrame(fm, c[1], c[2], c[3], c[4], purgeQueue, numQueued + 1)
          /\ anyPurge' = (anyPurge \/ purgeQueue)
          /\ purgeCut' = IF purgeQueue
                         THEN (IF IsNull(fm.newFrameRequest) THEN 0 ELSE numQueued + 1)
                         ELSE purgeCut
          /\ lastStep' = IF purgeQueue THEN "purge" ELSE "queue"
          /\ obs' = ObsAfterQueue(obs, purgeQueue)
    /\ numQueued' = numQueued + 1
    /\ UNCHANGED <<auxVars, burstVars, smoothVariant, dequeued, wraps, engineVars, threadVars>>

CurrentFrameObs ==
    /\ IdleWrap(fm) => wraps < MaxWraps
    /\ fm' = updateCurrentFrame(smoothVariant, fm)
    /\ dequeued' = DequeuedAfter(fm, fm', dequeued)
    /\ lastStep' = UpdateBranch(fm)
    /\ wraps' = IF IdleWrap(fm) THEN wraps + 1 ELSE wraps
    /\ obs' = ObsAfterCall(fm, obs)
    /\ UNCHANGED <<auxVars, burstVars, smoothVariant, numQueued, anyPurge, purgeCut,
                   engineVars, threadVars>>

\* queueFrame calls explored for the values of the frames returned: valid
\* frames (every parameter a number), a fade shorter than the duration, a
\* contour frame with a fade longer than half its duration, a silence request.
MaxFadeQueued == 2
FadeCalls ==
    {<<"A", 3, 2, 1>>,
     <<"B", 2, 2, 2>>,
     <<NullPtr, 3, 1, -1>>}

FadeQueueFrame == QueueFrameObs(FadeCalls, MaxFadeQueued)
FadeNext == FadeQueueFrame \/ CurrentFrameObs
FadeSpec == Init /\ [][FadeNext]_vars

\* queueFrame calls explored for invalid and extreme arguments: a frame with
\* NaN fields, counts of 0, and the largest numFadeSamples.
MaxEdgeQueued == 2
EdgeCalls ==
    {<<"N", 2, 1, 1>>,
     <<"A", 0, 0, 2>>,
     <<NullPtr, 1, UIntMax, -1>>}

EdgeQueueFrame == QueueFrameObs(EdgeCalls, MaxEdgeQueued)
EdgeNext == EdgeQueueFrame \/ CurrentFrameObs
EdgeSpec == Init /\ [][EdgeNext]_vars

\* ------------------------------------------------ scheduler, consumer running
\* The producer queues without purge and the audio callback keeps calling
\* getCurrentFrame: level-pitch frames and a silence request, among them the
\* largest numFadeSamples and the largest minNumSamples.
MaxLiveQueued == 2
LiveCalls ==
    {<<"F", 2, 1, 1>>,
     <<NullPtr, 1, 2, -1>>,
     <<"F", 1, UIntMax, 2>>,
     <<"F", UIntMax, 1, 3>>}

LiveQueueFrame ==
    /\ numQueued < MaxLiveQueued
    /\ \E c \in LiveCalls :
          fm' = queueFrame(fm, c[1], c[2], c[3], c[4], FALSE, numQueued + 1)
    /\ numQueued' = numQueued + 1
    /\ lastStep' = "queue"
    /\ UNCHANGED <<auxVars, fadeVars, burstVars, smoothVariant, dequeued, anyPurge,
                   purgeCut, wraps, engineVars, threadVars>>

LiveCurrentFrame ==
    /\ fm' = updateCurrentFrame(smoothVariant, fm)
    /\ dequeued' = DequeuedAfter(fm, fm', dequeued)
    /\ lastStep' = UpdateBranch(fm)
    /\ UNCHANGED <<auxVars, fadeVars, burstVars, smoothVariant, numQueued, anyPurge,
                   purgeCut, wraps, engineVars, threadVars>>

\* ------------------------------------------------- scheduler, rounded fades
\* The scheduler with the crossfade in rounded arithmetic: level-pitch frames
\* whose values the reduced double holds exactly, a silence request, purges.
MaxRoundQueued == 3
RoundCalls ==
    {<<"G", 2, 1, 1>>,
     <<"H", 1, 2, 2>>,
     <<NullPtr, 1, 1, -1>>}

RoundQueueFrame ==
    /\ numQueued < MaxRoundQueued
    /\ \E c \in RoundCalls, purgeQueue \in BOOLEAN :
          /\ fm' = queueFrame(fm, c[1], c[2], c[3], c[4], purgeQueue, numQueued + 1)
          /\ anyPurge' = (anyPurge \/ purgeQueue)
          /\ lastStep' = IF purgeQueue THEN "purge" ELSE "queue"
    /\ numQueued' = numQueued + 1
    /\ UNCHANGED <<tailVars, resVars, memVars, fadeFrom, fadeVars, burstVars,
                   smoothVariant, dequeued, purgeCut, wraps, engineVars, threadVars>>

RoundCurrentFrame ==
    /\ IdleWrap(fm) => wraps < MaxWraps
    /\ fm' = updateCurrentFrameFl(smoothVariant, fm)
    /\ dequeued' = DequeuedAfter(fm, fm', dequeued)
    /\ lastStep' = UpdateBranch(fm)
    /\ wraps' = IF IdleWrap(fm) THEN wraps + 1 ELSE wraps
    /\ fadeFrom' = IF UpdateBranch(fm) = "dequeue"
                   THEN fm'.oldFrameRequest.frame
                   ELSE fadeFrom
    /\ UNCHANGED <<tailVars, resVars, memVars, fadeVars, burstVars, smoothVariant,
                   numQueued, anyPurge, purgeCut, engineVars, threadVars>>

RoundNext == RoundQueueFrame \/ RoundCurrentFrame
RoundSpec == Init /\ [][RoundNext]_vars

LiveNext == LiveQueueFrame \/ LiveCurrentFrame
LiveSpec == Init /\ [][LiveNext]_vars /\ WF_vars(LiveCurrentFrame)

\* -------------------------------------------------------------------- burst
\* The burst fields of the frames generate passes to getNext (line 1007), one
\* call per sample: any amplitude with either set of the other four fields.
BurstAmplitudes == {R(0), R(1), R(2)}
BurstShapes ==
    {<<R(0), R(0), R(0), R(0)>>,
     <<Norm(1, 3), R(4), R(2), R(1)>>}

BurstGetNext ==
    /\ \E a \in BurstAmplitudes, sh \in BurstShapes :
          LET args == <<a>> \o sh
          IN  /\ burst' = getNext(burst, args).gen
              /\ burstUsed' = BurstUsedAfter(burstUsed, burst, args)
    /\ UNCHANGED <<auxVars, fadeVars, schedVars, engineVars, histVars, threadVars>>

BurstNext == BurstGetNext
BurstSpec == Init /\ [][BurstNext]_vars

\* The same call with a burstDuration outside the documented range 0..1 among
\* the frames' values, followed for MaxBurstSteps calls after each trigger.
BurstEdgeShapes ==
    {<<R(0), R(0), R(0), R(0)>>,
     <<R(-1), R(4), R(2), R(1)>>}

BurstEdgeGetNext ==
    /\ burstUsed.steps < MaxBurstSteps
    /\ \E a \in BurstAmplitudes, sh \in BurstEdgeShapes :
          LET args == <<a>> \o sh
          IN  /\ burst' = getNext(burst, args).gen
              /\ burstUsed' = BurstUsedAfter(burstUsed, burst, args)
    /\ UNCHANGED <<auxVars, fadeVars, schedVars, engineVars, histVars, threadVars>>

BurstEdgeNext == BurstEdgeGetNext
BurstEdgeSpec == Init /\ [][BurstEdgeNext]_vars

\* ---------------------------------------------------------------- ownership
\* queueFrame, getCurrentFrame and the destructor with the allocations and
\* deletes kept; nothing is called on a destroyed scheduler.
MaxMemQueued == 3

MemQueueFrame ==
    /\ ~heap.destroyed
    /\ numQueued < MaxMemQueued
    /\ \E c \in FadeCalls, purgeQueue \in BOOLEAN :
          /\ fm' = queueFrame(fm, c[1], c[2], c[3], c[4], purgeQueue, numQueued + 1)
          /\ anyPurge' = (anyPurge \/ purgeQueue)
          /\ purgeCut' = IF purgeQueue
                         THEN (IF IsNull(fm.newFrameRequest) THEN 0 ELSE numQueued + 1)
                         ELSE purgeCut
          /\ lastStep' = IF purgeQueue THEN "purge" ELSE "queue"
          /\ heap' = HeapAfterQueue(heap, fm, purgeQueue, numQueued + 1)
    /\ numQueued' = numQueued + 1
    /\ UNCHANGED <<tailVars, resVars, roundVars, fadeVars, burstVars, smoothVariant, dequeued, wraps,
                   engineVars, threadVars>>

MemCurrentFrame ==
    /\ ~heap.destroyed
    /\ IdleWrap(fm) => wraps < MaxWraps
    /\ fm' = updateCurrentFrame(smoothVariant, fm)
    /\ dequeued' = DequeuedAfter(fm, fm', dequeued)
    /\ lastStep' = UpdateBranch(fm)
    /\ wraps' = IF IdleWrap(fm) THEN wraps + 1 ELSE wraps
    /\ heap' = HeapAfterUpdate(heap, fm)
    /\ UNCHANGED <<tailVars, resVars, roundVars, fadeVars, burstVars, smoothVariant, numQueued,
                   anyPurge, purgeCut, engineVars, threadVars>>

MemDestroy ==
    /\ ~heap.destroyed
    /\ heap' = HeapAfterDestroy(heap, fm)
    /\ lastStep' = "destroy"
    /\ UNCHANGED <<tailVars, resVars, roundVars, fadeVars, burstVars, schedVars, numQueued, dequeued,
                   anyPurge, purgeCut, wraps, engineVars, threadVars>>

MemNext == MemQueueFrame \/ MemCurrentFrame \/ MemDestroy
MemSpec == Init /\ [][MemNext]_vars

\* --------------------------------------------------------------- resonators
\* One resonate call on each resonator with the same input and frequency: a
\* frequency and a bandwidth that are 0, negative or positive (a quarter of the
\* sample rate; a bandwidth equal to the frequency, for the 4th-order
\* resonator before its compensation factor).
MaxResCalls == 3
ResInputs == {R(1), R(-2)}
ResFrequencies == {R(0), R(-1), RDivInt(R(SampleRate), 4)}
ResBandwidths == {"zero", "negative", "positive"}
ResBandwidth(kind, frequency) ==
    CASE kind = "zero" -> R(0)
      [] kind = "negative" -> R(-1)
      [] kind = "positive" -> IF RLess(R(0), frequency) THEN frequency ELSE R(1)

ResonateAll ==
    /\ resSeen.calls < MaxResCalls
    /\ \E in \in ResInputs, f \in ResFrequencies, kind \in ResBandwidths :
          LET bw == ResBandwidth(kind, f)
              bw4 == RMul(bw, RInv(CascadeBwCompensation))
              second == [n \in SecondOrder |-> resonate(res[n], in, f, bw)]
              fourth == resonate4thOrder(res.fourth, in, f, bw4)
          IN  /\ res' = [bandpass |-> second["bandpass"].res,
                         allPole |-> second["allPole"].res,
                         notch |-> second["notch"].res,
                         fourth |-> fourth.res]
              /\ resSeen' = [calls |-> resSeen.calls + 1, in |-> in,
                             frequency |-> f, bandwidth |-> bw, bandwidth4 |-> bw4,
                             before |-> Integrators(res),
                             out |-> [bandpass |-> second["bandpass"].out,
                                      allPole |-> second["allPole"].out,
                                      notch |-> second["notch"].out,
                                      fourth |-> fourth.out]]
    /\ UNCHANGED <<tailVars, memVars, roundVars, fadeVars, burstVars, schedVars, engineVars, histVars,
                   threadVars>>

ResNext == ResonateAll
ResSpec == Init /\ [][ResNext]_vars

\* ------------------------------------------------------ output conditioning
\* One sample of generate's loop body from the silence handling on (lines
\* 988-998 and 1012-1016), for the effective pre-gain of the sample
\* (preFormantGain times the trill factor) and its scaled output (out * 4000):
\* silence, a value between the two thresholds, the upper threshold itself and
\* an audible gain; no signal, twice the limiter's threshold and 4/3 of it.
MaxSamples == 3
PreGains == {R(0), Norm(7, 1000), Norm(1, 100), Norm(1, 2)}
ScaledOuts == {R(0), R(2 * Threshold), Norm(-4 * Threshold, 3)}

ConditionSample ==
    /\ tailSeen.samples < MaxSamples
    /\ \E preGain \in PreGains, scaled \in ScaledOuts :
          /\ prevPreGain' = preGain
          /\ peakLimiter' =
                 limitGain(setFastRelease(peakLimiter, RLess(preGain, PreGainHigh)),
                           scaled)
          /\ tailSeen' =
                 TailSeenAfter(tailSeen, prevPreGain, peakLimiter, preGain, scaled)
    /\ UNCHANGED <<resVars, memVars, roundVars, fadeVars, burstVars, schedVars, engineVars, histVars,
                   threadVars>>

TailNext == ConditionSample
TailSpec == Init /\ [][TailNext]_vars

\* ----------------------------------------------------------------- generate
\* The value generate returns when getCurrentFrame gives NULL at sample i
\* (line 1019).
ReturnSampleCount(i, sampleCount) == sampleCount
ReturnOnNull(i, sampleCount) == i

\* The loop of generate from sample st.i on; st carries the scheduler and the
\* history.  The samples written do not feed back into the scheduler, so the
\* loop gives their number (st.i) and Generate their values.
RECURSIVE GenLoop(_, _, _)
GenLoop(variant, st, sampleCount) ==
    IF st.i >= sampleCount
    THEN [st EXCEPT !.ret = sampleCount]
    ELSE LET s2 == updateCurrentFrame(variant, st.fm)
             st2 == [st EXCEPT !.fm = s2,
                               !.dequeued = DequeuedAfter(st.fm, s2, @),
                               !.wraps = IF IdleWrap(st.fm) THEN @ + 1 ELSE @,
                               !.calls = @ + 1,
                               !.lastStep = UpdateBranch(st.fm)]
         IN  IF s2.curFrameIsNULL
             THEN [st2 EXCEPT !.ret = ReturnOnNull(st.i, sampleCount)]
             ELSE GenLoop(variant, [st2 EXCEPT !.i = @ + 1], sampleCount)

\* setFrameManager(frameManager) with the scheduler.
SetFrameManager ==
    /\ ~hasFrameManager
    /\ hasFrameManager' = TRUE
    /\ lastStep' = "setFrameManager"
    /\ UNCHANGED <<auxVars, fadeVars, burstVars, schedVars, sampleBuf, genRet, genN, genCalls,
                   numQueued, dequeued, anyPurge, purgeCut, wraps, threadVars>>

\* generate(sampleCount, sampleBuf).
Generate(sampleCount) ==
    IF ~hasFrameManager
    THEN /\ genRet' = 0
         /\ genN' = sampleCount
         /\ genCalls' = 0
         /\ sampleBuf' = <<>>
         /\ lastStep' = "generate"
         /\ UNCHANGED <<auxVars, fadeVars, burstVars, schedVars, hasFrameManager,
                        numQueued, dequeued, anyPurge, purgeCut, wraps, threadVars>>
    ELSE \E r \in {GenLoop(smoothVariant,
                          [fm |-> fm, dequeued |-> dequeued, wraps |-> wraps,
                           calls |-> 0, lastStep |-> "generate", i |-> 0, ret |-> 0],
                          sampleCount)} :
             /\ r.wraps <= MaxWraps
             /\ fm' = r.fm
             /\ dequeued' = r.dequeued
             /\ wraps' = r.wraps
             /\ genCalls' = r.calls
             /\ lastStep' = r.lastStep
             /\ sampleBuf' \in [1..r.i -> Samples]
             /\ genRet' = r.ret
             /\ genN' = sampleCount
             /\ UNCHANGED <<auxVars, fadeVars, burstVars, smoothVariant, hasFrameManager,
                            numQueued, anyPurge, purgeCut, threadVars>>

GenQueueFrame == QueueFrameFrom(GenCalls, MaxGenQueued)
GenerateNone == Generate(0)
GenerateSome == \E sampleCount \in 1..MaxGen : Generate(sampleCount)

GenNext == SetFrameManager \/ GenQueueFrame \/ GenerateNone \/ GenerateSome

\* generate(sampleCount) can be called with some sampleCount >= 1 (within the
\* bounds of the exploration).
GenerateSomeEnabled ==
    \/ ~hasFrameManager
    \/ \E sampleCount \in 1..MaxGen :
          GenLoop(smoothVariant,
                  [fm |-> fm, dequeued |-> dequeued, wraps |-> wraps,
                   calls |-> 0, lastStep |-> "generate", i |-> 0, ret |-> 0],
                  sampleCount).wraps <= MaxWraps

\* The audio callback keeps calling generate for at least one sample: weak
\* fairness of GenerateSome, WF_vars(GenerateSome), with ENABLED written out.
GenerateFair ==
    \/ []<>(~GenerateSomeEnabled)
    \/ []<><<GenerateSome>>_vars

GenSpec == Init /\ [][GenNext]_vars /\ GenerateFair

\* ------------------------------------------------------------------ threads
\* queueFrame calls explored per behaviour of the two threads.
MaxConcQueued == 2

\* The queueFrame calls the producer makes while the consumer runs.
ConcCalls ==
    {<<"A", 1, 2, 1>>,
     <<NullPtr, 1, 1, -1>>}

\* LockableObject: acquire() blocks while another thread owns the mutex; the
\* owner may lock again.
CanAcquireAlways(l, t) == TRUE
CanAcquire(l, t) == l.owner = "none" \/ l.owner = t
acquire(l, t) == [owner |-> t, depth |-> l.depth + 1]
release(l) == IF l.depth <= 1 THEN Unlocked ELSE [l EXCEPT !.depth = @ - 1]

\* memcpy(&oldFrameRequest->frame, &curFrame, ...) does not copy in one step:
\* the fields of `part` are written first.
CopyFirstPart == Whitelist
PurgeCopyPart(s, part) ==
    [s EXCEPT !.oldFrameRequest.frame =
        [p \in Params |-> IF p \in part THEN s.curFrame[p] ELSE @[p]]]

Goto(t, label) == pc' = [pc EXCEPT ![t] = label]

\* queueFrame is called (the producer reaches line 112).
QfCall ==
    /\ pc["producer"] = "idle"
    /\ numQueued < MaxConcQueued
    /\ Goto("producer", "qf_acquire")
    /\ UNCHANGED <<auxVars, fadeVars, burstVars, schedVars, engineVars, histVars, lock, prod, lastIndexRet, frameRet>>

\* acquire() and the construction of the request (lines 112-141).
QfAcquire ==
    /\ pc["producer"] = "qf_acquire"
    /\ CanAcquire(lock, "producer")
    /\ lock' = acquire(lock, "producer")
    /\ \E c \in ConcCalls, purgeQueue \in BOOLEAN :
          /\ prod' = [req |-> MakeRequest(c[1], c[2], c[3], c[4], numQueued + 1),
                      purgeQueue |-> purgeQueue]
          /\ anyPurge' = (anyPurge \/ purgeQueue)
          /\ Goto("producer", IF purgeQueue THEN "qf_drain" ELSE "qf_push")
    /\ numQueued' = numQueued + 1
    /\ UNCHANGED <<auxVars, fadeVars, burstVars, schedVars, engineVars, dequeued, purgeCut, lastStep, wraps,
                   lastIndexRet, frameRet>>

\* The loop that empties the queue (line 143).
QfDrain ==
    /\ pc["producer"] = "qf_drain"
    /\ fm' = PurgeDrain(fm)
    /\ purgeCut' = IF IsNull(fm.newFrameRequest) THEN 0 ELSE numQueued
    /\ Goto("producer", "qf_counter")
    /\ UNCHANGED <<auxVars, fadeVars, burstVars, smoothVariant, engineVars, numQueued, dequeued, anyPurge,
                   lastStep, wraps, lock, prod, lastIndexRet, frameRet>>

\* sampleCounter = oldFrameRequest->minNumSamples (line 144) and the test of
\* newFrameRequest (line 145).
QfCounter ==
    /\ pc["producer"] = "qf_counter"
    /\ fm' = PurgeCounter(fm)
    /\ Goto("producer", IF IsNull(fm.newFrameRequest) THEN "qf_push" ELSE "qf_nullflag")
    /\ UNCHANGED <<auxVars, fadeVars, burstVars, smoothVariant, engineVars, histVars, lock, prod, lastIndexRet,
                   frameRet>>

\* Line 146.
QfNullFlag ==
    /\ pc["producer"] = "qf_nullflag"
    /\ fm' = PurgeNullFlag(fm)
    /\ Goto("producer", "qf_copy")
    /\ UNCHANGED <<auxVars, fadeVars, burstVars, smoothVariant, engineVars, histVars, lock, prod, lastIndexRet,
                   frameRet>>

\* The memcpy of line 147, in two parts.
QfCopyFrame ==
    /\ \/ /\ pc["producer"] = "qf_copy"
          /\ fm' = PurgeCopyPart(fm, CopyFirstPart)
          /\ Goto("producer", "qf_copy_rest")
       \/ /\ pc["producer"] = "qf_copy_rest"
          /\ fm' = PurgeCopyPart(fm, Params \ CopyFirstPart)
          /\ Goto("producer", "qf_delete")
    /\ UNCHANGED <<auxVars, fadeVars, burstVars, smoothVariant, engineVars, histVars, lock, prod, lastIndexRet,
                   frameRet>>

\* Lines 148-149.
QfDeleteNew ==
    /\ pc["producer"] = "qf_delete"
    /\ fm' = PurgeDeleteNew(fm)
    /\ Goto("producer", "qf_push")
    /\ UNCHANGED <<auxVars, fadeVars, burstVars, smoothVariant, engineVars, histVars, lock, prod, lastIndexRet,
                   frameRet>>

\* Line 152.
QfPush ==
    /\ pc["producer"] = "qf_push"
    /\ fm' = Push(fm, prod.req)
    /\ lastStep' = IF prod.purgeQueue THEN "purge" ELSE "queue"
    /\ Goto("producer", "qf_release")
    /\ UNCHANGED <<auxVars, fadeVars, burstVars, smoothVariant, engineVars, numQueued, dequeued, anyPurge,
                   purgeCut, wraps, lock, prod, lastIndexRet, frameRet>>

\* release() and the return (line 153).
QfRelease ==
    /\ pc["producer"] = "qf_release"
    /\ lock' = release(lock)
    /\ prod' = NoLocals
    /\ Goto("producer", "idle")
    /\ UNCHANGED <<auxVars, fadeVars, burstVars, schedVars, engineVars, histVars, lastIndexRet, frameRet>>

\* getLastIndex is called by the producer (line 156).
GliCall ==
    /\ pc["producer"] = "idle"
    /\ Goto("producer", "gli_read")
    /\ UNCHANGED <<auxVars, fadeVars, burstVars, schedVars, engineVars, histVars, lock, prod, lastIndexRet, frameRet>>

\* return lastUserIndex (line 157): no acquire() comes before the read.
GliRead ==
    /\ pc["producer"] = "gli_read"
    /\ lastIndexRet' = getLastIndex(fm)
    /\ Goto("producer", "idle")
    /\ UNCHANGED <<auxVars, fadeVars, burstVars, schedVars, engineVars, histVars, lock, prod, frameRet>>

\* getCurrentFrame is called by the consumer (line 160).
GcfCall ==
    /\ pc["consumer"] = "idle"
    /\ IdleWrap(fm) => wraps < MaxWraps
    /\ Goto("consumer", "gcf_acquire")
    /\ UNCHANGED <<auxVars, fadeVars, burstVars, schedVars, engineVars, histVars, lock, prod, lastIndexRet, frameRet>>

\* Line 161.
GcfAcquire ==
    /\ pc["consumer"] = "gcf_acquire"
    /\ CanAcquire(lock, "consumer")
    /\ lock' = acquire(lock, "consumer")
    /\ Goto("consumer", "gcf_update")
    /\ UNCHANGED <<auxVars, fadeVars, burstVars, schedVars, engineVars, histVars, prod, lastIndexRet, frameRet>>

\* updateCurrentFrame() (line 162).
GcfUpdate ==
    /\ pc["consumer"] = "gcf_update"
    /\ fm' = updateCurrentFrame(smoothVariant, fm)
    /\ dequeued' = DequeuedAfter(fm, fm', dequeued)
    /\ lastStep' = UpdateBranch(fm)
    /\ wraps' = IF IdleWrap(fm) THEN wraps + 1 ELSE wraps
    /\ Goto("consumer", "gcf_release")
    /\ UNCHANGED <<auxVars, fadeVars, burstVars, smoothVariant, engineVars, numQueued, anyPurge, purgeCut,
                   lock, prod, lastIndexRet, frameRet>>

\* Line 163.
GcfRelease ==
    /\ pc["consumer"] = "gcf_release"
    /\ lock' = release(lock)
    /\ Goto("consumer", "gcf_return")
    /\ UNCHANGED <<auxVars, fadeVars, burstVars, schedVars, engineVars, histVars, prod, lastIndexRet, frameRet>>

\* return curFrameIsNULL ? NULL : &curFrame (line 164), after the release.
GcfReturn ==
    /\ pc["consumer"] = "gcf_return"
    /\ frameRet' = IF fm.curFrameIsNULL THEN NullPtr ELSE "curFrame"
    /\ Goto("consumer", "idle")
    /\ UNCHANGED <<auxVars, fadeVars, burstVars, schedVars, engineVars, histVars, lock, prod, lastIndexRet>>

ConcNext ==
    \/ QfCall \/ QfAcquire \/ QfDrain \/ QfCounter \/ QfNullFlag \/ QfCopyFrame
    \/ QfDeleteNew \/ QfPush \/ QfRelease
    \/ GliCall \/ GliRead
    \/ GcfCall \/ GcfAcquire \/ GcfUpdate \/ GcfRelease \/ GcfReturn

ConcSpec == Init /\ [][ConcNext]_vars

\* ------------------------------------------------------------------ claims
\* C1: with no purge, the requests popped into the new slot are popped in
\* exactly the order they were queued (ids 1, 2, ...), each once, none skipped.
C1_FifoOrder ==
    ~anyPurge =>
        /\ Len(dequeued) <= numQueued
        /\ \A i \in 1..Len(dequeued) : dequeued[i][1] = i
        /\ Len(dequeued) + Len(fm.frameRequestQueue) = numQueued
        /\ \A i \in 1..Len(fm.frameRequestQueue) :
              fm.frameRequestQueue[i].id = Len(dequeued) + i

C1_Witness ==
    /\ ~anyPurge
    /\ Len(dequeued) = 3
    /\ lastStep = "dequeue"

\* C2 (as claimed): when queueFrame(..., purgeQueue = true) returns, the queue
\* holds exactly the new request, the new slot is empty, sampleCounter equals
\* old.minNumSamples, and the next getCurrentFrame call pops the new request.
C2_PurgeThenDequeue ==
    lastStep = "purge" =>
        /\ Len(fm.frameRequestQueue) = 1
        /\ fm.frameRequestQueue[1].id = numQueued
        /\ IsNull(fm.newFrameRequest)
        /\ fm.sampleCounter = fm.oldFrameRequest.minNumSamples
        /\ UpdateBranch(fm) = "dequeue"

\* C3 (as claimed): at the step that pops a purging request that cut a
\* crossfade, the old slot's frame equals the frame getCurrentFrame returns, in
\* every parameter.
C3_FadeStartsFromAudible ==
    (lastStep = "dequeue" /\ purgeCut # 0 /\ fm.newFrameRequest.id = purgeCut) =>
        \A i \in Params : fm.oldFrameRequest.frame[i] = fm.curFrame[i]

\* The userIndex of the last request popped, whatever it is.
LastDequeuedIndex(d) == IF d = <<>> THEN -1 ELSE d[Len(d)][2]

\* The userIndex of the last request popped whose userIndex is not -1.
RECURSIVE LastLabelledIndex(_)
LastLabelledIndex(d) ==
    IF d = <<>> THEN -1
    ELSE IF d[Len(d)][2] # -1 THEN d[Len(d)][2]
    ELSE LastLabelledIndex(SubSeq(d, 1, Len(d) - 1))

\* C6 (as claimed): getLastIndex returns the userIndex of the request most
\* recently popped, and -1 before any pop.
C6_LastIndexIsLastDequeued == getLastIndex(fm) = LastDequeuedIndex(dequeued)

\* C6 (amended): getLastIndex returns the userIndex of the most recently popped
\* request whose userIndex is not -1, and -1 if there is none.
C6_LastIndexIsLastLabelled == getLastIndex(fm) = LastLabelledIndex(dequeued)

C6_Witness ==
    /\ Len(dequeued) >= 2
    /\ LastDequeuedIndex(dequeued) = -1
    /\ getLastIndex(fm) # -1

\* C10: on every interpolation step of a crossfade the frame returned carries,
\* in each whitelisted field, exactly the target request's value (never a value
\* between the old one and the target), and the promotion step keeps it.
C10_WhitelistStepsInstantly ==
    /\ lastStep = "interpolate" =>
          \A i \in Whitelist : fm.curFrame[i] = fm.newFrameRequest.frame[i]
    /\ lastStep = "promote" =>
          \A i \in Whitelist : fm.curFrame[i] = fm.oldFrameRequest.frame[i]

C10_Witness ==
    /\ lastStep = "interpolate"
    /\ fm.sampleCounter < fm.newFrameRequest.numFadeSamples
    /\ \E i \in Whitelist :
          fm.oldFrameRequest.frame[i] # fm.newFrameRequest.frame[i]
    /\ ~fm.curFrameIsNULL

\* The producer is inside the purge block: between its first and last statement.
InPurge ==
    pc["producer"] \in {"qf_counter", "qf_nullflag", "qf_copy", "qf_copy_rest", "qf_delete"}

\* The queue has been emptied by a purge but the new slot still holds the
\* request whose crossfade the purge interrupts.
TornQueue ==
    /\ InPurge
    /\ fm.frameRequestQueue = <<>>
    /\ ~IsNull(fm.newFrameRequest)

\* The old slot is partly overwritten: its NULLFrame flag or the first part of
\* its frame is written, the rest is not.
TornOld == pc["producer"] \in {"qf_copy", "qf_copy_rest", "qf_delete"}

\* C4: whenever the consumer is about to run updateCurrentFrame, the scheduler
\* is in no half-purged state: the producer is not inside the purge block, the
\* queue is not emptied with the interrupted request still in the new slot, and
\* the old slot is not partly overwritten.
C4_PurgeObservedWhole ==
    pc["consumer"] \in {"gcf_update", "gcf_release"} =>
        /\ ~InPurge
        /\ ~TornQueue
        /\ ~TornOld
        /\ lock.owner = "consumer" => pc["producer"] \in {"idle", "qf_acquire", "gli_read"}

\* The consumer has called getCurrentFrame and waits at acquire() while the
\* producer, inside a purge that cut a crossfade, has written half the old slot.
C4_Witness ==
    /\ pc["consumer"] = "gcf_acquire"
    /\ pc["producer"] = "qf_copy_rest"
    /\ TornQueue
    /\ lock.owner = "producer"
    /\ \E p \in Params : fm.oldFrameRequest.frame[p] # fm.curFrame[p]

\* The statements that read or write the shared scheduler state, per thread.
AccessLabels ==
    {"qf_drain", "qf_counter", "qf_nullflag", "qf_copy", "qf_copy_rest",
     "qf_delete", "qf_push", "gli_read", "gcf_update", "gcf_return"}

\* C5 (as claimed): a thread that is at a statement reading or writing the
\* shared scheduler state holds the lock, and a thread that has returned holds
\* no lock.
C5_LockDiscipline ==
    \A t \in Threads :
        /\ pc[t] \in AccessLabels => lock.owner = t
        /\ pc[t] = "idle" => lock.owner # t

\* The branches of updateCurrentFrame.
Branches == {"promote", "interpolate", "dequeue", "starve", "hold"}

\* C7, the return value: generate returns the number of samples it wrote, 0
\* without a scheduler; it stops at the first getCurrentFrame call that gives
\* NULL and makes no call after it.
C7_ReturnsProducedCount ==
    genRet # -1 =>
        /\ genRet = Len(sampleBuf)
        /\ genRet <= genN
        /\ genCalls = 0 => genRet = 0
        /\ genCalls > 0 => genCalls = IF genRet < genN THEN genRet + 1 ELSE genN
        /\ lastStep \in Branches => (fm.curFrameIsNULL <=> genRet < genN)

\* A generate call returned short because the scheduler was starved, and a
\* request has been queued since.
C7_StarvedThenQueued ==
    /\ hasFrameManager
    /\ genCalls > 0
    /\ genRet < genN
    /\ fm.curFrameIsNULL
    /\ fm.frameRequestQueue # <<>>

C7_YieldsSample == ~fm.curFrameIsNULL /\ genRet >= 1

\* C7: the return value is as above, and after a short return a queueFrame
\* call followed by generate calls leads to a call that yields a sample.
C7_StopsEarlyAndRecovers ==
    /\ []C7_ReturnsProducedCount
    /\ C7_StarvedThenQueued ~> C7_YieldsSample

\* The scheduler starved through a whole wrap of sampleCounter, then the first
\* request ever popped gave a full buffer.
C7_Witness ==
    /\ wraps >= 1
    /\ Len(dequeued) = 1
    /\ genN = 2
    /\ genRet = 2
    /\ lastStep = "interpolate"

\* C8: every sample generate writes is an integer in [-32767, 32767].
C8_SamplesInRange ==
    \A i \in DOMAIN sampleBuf : sampleBuf[i] \in (-SampleMax)..SampleMax

C8_Witness ==
    /\ Len(sampleBuf) = 2
    /\ sampleBuf[1] = -SampleMax
    /\ sampleBuf[2] = SampleMax

\* C11 (as claimed): no frame getCurrentFrame returns holds NaN in any
\* parameter, whatever NaN the queued frames hold.
C11_NoNaNReturned ==
    ~fm.curFrameIsNULL => \A p \in Params : ~IsNaN(fm.curFrame[p])

\* C12 (as claimed): when a request is dequeued after the request before it
\* completed its crossfade, at least minNumSamples (of the request before)
\* hold calls were made between the promotion and this dequeue.
C12_HoldsMinAfterFade ==
    (lastStep = "dequeue" /\ obs.gapPromoted) => obs.gapHolds >= obs.gapMin

\* C12 (amended): when a request is dequeued after the request before it
\* completed its crossfade, and no purge came between, at least minNumSamples
\* (of the request before) calls were made since the call that dequeued the
\* request before, those of its crossfade included.
C12_HoldsMinSinceDequeue ==
    (lastStep = "dequeue" /\ obs.gapPromoted /\ ~obs.gapPurged) =>
        obs.gap >= obs.gapMin

\* A request was played for exactly its minNumSamples calls, fewer of them
\* hold calls, and the next one is dequeued.
C12_Witness ==
    /\ lastStep = "dequeue"
    /\ obs.gapPromoted
    /\ ~obs.gapPurged
    /\ obs.gap = obs.gapMin
    /\ obs.gapHolds > 0
    /\ obs.gapHolds < obs.gapMin

C15_PitchReachesTargets ==
    (/\ obs.req.id # -1
     /\ ~obs.req.NULLFrame
     /\ ~obs.purged
     /\ obs.req.hasContour => obs.req.minNumSamples >= 2) =>
        LET req == obs.req
            pitch == fm.curFrame["voicePitch"]
            a1 == RAbs(req.voicePitchInc)
            a2 == RAbs(req.voicePitchInc2)
            tol == IF req.hasContour /\ RLess(a1, a2) THEN a2 ELSE a1
        IN  /\ (req.hasContour /\ obs.calls = req.minNumSamples \div 2) =>
                   RLeq(RAbs(RSub(pitch, req.midVoicePitch)), tol)
            /\ obs.calls = req.minNumSamples =>
                   RLeq(RAbs(RSub(pitch, req.endVoicePitch)), tol)

\* C16: in every getNext call that is not a rising edge of burstAmplitude and
\* finds a burst running (active, phase below 1), whatever the arguments are,
\* the call returns a burst sample computed from the parameters of the last
\* rising edge, leaves the five latched parameters as they were and moves the
\* phase forward (so the burst ends only by its phase reaching 1).
C16_BurstSelfSustaining ==
    [][(/\ burst.burstActive
        /\ RLess(burst.burstPhase, R(1))
        /\ ~burstUsed'.edge) =>
           /\ ~burstUsed'.out.silent
           /\ burstUsed'.out.params = burstUsed.latched
           /\ burstUsed'.out.phase = burst.burstPhase
           /\ burstUsed'.latched = burstUsed.latched
           /\ BurstSample(burst').params = burstUsed.latched
           /\ burst'.burstActive
           /\ RLess(burst.burstPhase, burst'.burstPhase)]_vars

\* A burst sample returned by a call whose burstAmplitude is 0 and whose other
\* fields differ from the latched ones, two or more calls after the trigger.
C16_Witness ==
    /\ burstUsed.latched # <<>>
    /\ ~burstUsed.edge
    /\ ~burstUsed.out.silent
    /\ burstUsed.steps >= 2
    /\ burstUsed.args[1] = R(0)
    /\ \A k \in 2..5 : burstUsed.args[k] # burstUsed.latched[k]
    /\ burstUsed.out.params = burstUsed.latched

\* C17 (as claimed): every request queueFrame has stored (waiting in the queue
\* or being faded in) has minNumSamples >= 1 and numFadeSamples >= 1, and on
\* every interpolation step the fade ratio sampleCounter / numFadeSamples lies
\* in (0, 1]: 0 < sampleCounter <= numFadeSamples.
C17_FadeRatioInRange ==
    LET new == fm.newFrameRequest
        stored == {fm.frameRequestQueue[k] : k \in 1..Len(fm.frameRequestQueue)}
                      \cup (IF IsNull(new) THEN {} ELSE {new})
    IN  /\ \A q \in stored : q.minNumSamples >= 1 /\ q.numFadeSamples >= 1
        /\ (lastStep = "interpolate" /\ ~IsNull(new)) =>
               /\ 0 < fm.sampleCounter
               /\ fm.sampleCounter <= new.numFadeSamples

\* C18 (as claimed): on every interpolated sample of a crossfade the current
\* frame's preFormantGain is the target frame's value, as burstAmplitude and
\* burstDuration are.
C18_GainStepsInstantly ==
    (lastStep = "interpolate" /\ ~IsNull(fm.newFrameRequest)) =>
        /\ fm.curFrame["burstAmplitude"] = fm.newFrameRequest.frame["burstAmplitude"]
        /\ fm.curFrame["burstDuration"] = fm.newFrameRequest.frame["burstDuration"]
        /\ fm.curFrame["preFormantGain"] = fm.newFrameRequest.frame["preFormantGain"]

\* C19: on the interpolated sample of a crossfade with an even numFadeSamples
\* where sampleCounter = numFadeSamples / 2, every parameter of the current
\* frame that does not step instantly is the arithmetic mean of its old-slot
\* and new-slot values, with the cubic and with the quintic smoothstep.
C19_MidpointIsMean ==
    (/\ lastStep = "interpolate"
     /\ ~IsNull(fm.newFrameRequest)
     /\ fm.newFrameRequest.numFadeSamples % 2 = 0
     /\ 2 * fm.sampleCounter = fm.newFrameRequest.numFadeSamples) =>
        \A p \in Params \ Whitelist :
            RMul(R(2), fm.curFrame[p]) =
                RAdd(fm.oldFrameRequest.frame[p], fm.newFrameRequest.frame[p])

\* The midpoint of a crossfade between two frames that differ in cf1 and in
\* voicePitch, with the quintic smoothstep.
C19_Witness ==
    /\ lastStep = "interpolate"
    /\ ~IsNull(fm.newFrameRequest)
    /\ 2 * fm.sampleCounter = fm.newFrameRequest.numFadeSamples
    /\ smoothVariant = "quintic"
    /\ fm.oldFrameRequest.frame["cf1"] # fm.newFrameRequest.frame["cf1"]
    /\ fm.oldFrameRequest.frame["cf1"] # R(0)
    /\ fm.oldFrameRequest.frame["voicePitch"] # fm.newFrameRequest.frame["voicePitch"]

\* C20 (as claimed): on the last sample of the crossfade of a non-null request
\* whose voicePitch differs from its endVoicePitch, the current frame's
\* voicePitch equals the voicePitch the request was queued with.
C20_PitchIsDeclaredStart ==
    (/\ lastStep = "interpolate"
     /\ ~IsNull(fm.newFrameRequest)
     /\ ~fm.newFrameRequest.NULLFrame
     /\ obs.req.id = fm.newFrameRequest.id
     /\ obs.req.voicePitch # obs.req.endVoicePitch
     /\ fm.sampleCounter = fm.newFrameRequest.numFadeSamples) =>
        fm.curFrame["voicePitch"] = obs.req.voicePitch

\* C20 (amended): on that sample the current frame's voicePitch equals the
\* voicePitch the request was queued with plus numFadeSamples times the
\* request's per-sample increment voicePitchInc.
C20_PitchIsStartPlusFade ==
    (/\ lastStep = "interpolate"
     /\ ~IsNull(fm.newFrameRequest)
     /\ ~fm.newFrameRequest.NULLFrame
     /\ obs.req.id = fm.newFrameRequest.id
     /\ obs.req.voicePitch # obs.req.endVoicePitch
     /\ fm.sampleCounter = fm.newFrameRequest.numFadeSamples) =>
        fm.curFrame["voicePitch"] =
            RAdd(obs.req.voicePitch,
                 RMul(obs.req.voicePitchInc, R(obs.req.numFadeSamples)))

\* The last crossfade sample of such a request, faded in from another frame,
\* with a pitch that is not the one it was queued with.
C20_Witness ==
    /\ lastStep = "interpolate"
    /\ ~IsNull(fm.newFrameRequest)
    /\ ~fm.newFrameRequest.NULLFrame
    /\ obs.req.id = fm.newFrameRequest.id
    /\ obs.req.voicePitch # obs.req.endVoicePitch
    /\ fm.sampleCounter = fm.newFrameRequest.numFadeSamples
    /\ ~obs.oldWasNull
    /\ fm.curFrame["voicePitch"] # obs.req.voicePitch

\* C21 (as claimed): a getNext call starts a burst (returns a burst sample
\* with the envelope at phase 0) only if it finds the generator idle
\* (burstPhase = 1) and its burstAmplitude is > 0 while the call before had
\* burstAmplitude <= 0 (0 before the first call).
C21_StartOnlyIdleOnEdge ==
    [][(~burstUsed'.out.silent /\ burstUsed'.out.phase = R(0)) =>
          LET prev == IF burstUsed.args = <<>> THEN R(0) ELSE burstUsed.args[1]
          IN  /\ burst.burstPhase = R(1)
              /\ RLeq(prev, R(0))
              /\ RLess(R(0), burstUsed'.args[1])]_vars

\* C21 (amended): a getNext call starts a burst exactly when its
\* burstAmplitude is > 0 while the call before had burstAmplitude <= 0 (0
\* before the first call), whether the generator is idle or a burst is still
\* running; so an amplitude that stays positive starts exactly one burst.  The
\* start latches the call's five parameters.
C21_StartExactlyOnEdge ==
    [][LET prev == IF burstUsed.args = <<>> THEN R(0) ELSE burstUsed.args[1]
           rising == RLeq(prev, R(0)) /\ RLess(R(0), burstUsed'.args[1])
           started == ~burstUsed'.out.silent /\ burstUsed'.out.phase = R(0)
       IN  /\ started <=> rising
           /\ started => burstUsed'.out.params = burstUsed'.args]_vars

\* A burst started by a rising edge that came while the burst before was still
\* running.
C21_Witness ==
    /\ burstUsed.edge
    /\ burstUsed.running
    /\ ~burstUsed.out.silent
    /\ burstUsed.out.phase = R(0)
    /\ burstUsed.out.params = burstUsed.args

\* C22 (as claimed): on a sample whose effective pre-gain is above 0.01, when
\* the pre-gain had been below 0.005 on an earlier sample and not above 0.01
\* since, the resonators are hard-reset.
C22_ResetAfterSilence ==
    (/\ tailSeen.samples > 0
     /\ tailSeen.armedBefore
     /\ RLess(PreGainHigh, tailSeen.preGain)) => tailSeen.reset

\* C25 (as claimed): after each sample with limiter input x, gain g before
\* the sample and threshold T, the gain is g + attack * (T/|x| - g) exactly
\* when |x| * g > T, and otherwise g + release * (1 - g), with the fast
\* release coefficient iff the sample's effective pre-gain is below 0.01.
C25_AttackWhenOutputAbove ==
    tailSeen.samples > 0 =>
        LET x == RAbs(tailSeen.scaled)
            g == tailSeen.gainBefore
            relAlpha == IF RLess(tailSeen.preGain, PreGainHigh)
                       THEN FastReleaseAlpha ELSE ReleaseAlpha
        IN  peakLimiter.gain =
                IF RLess(R(Threshold), RMul(x, g))
                THEN RAdd(g, RMul(AttackAlpha,
                                  RSub(RMul(R(Threshold), <<x[2], x[1]>>), g)))
                ELSE RAdd(g, RMul(relAlpha, RSub(R(1), g)))

\* C25 (amended): the same with the attack branch taken exactly when
\* |x| > T, whatever the current gain is.
C25_AttackWhenInputAbove ==
    tailSeen.samples > 0 =>
        LET x == RAbs(tailSeen.scaled)
            g == tailSeen.gainBefore
            fast == RLess(tailSeen.preGain, PreGainHigh)
            relAlpha == IF fast THEN FastReleaseAlpha ELSE ReleaseAlpha
        IN  /\ peakLimiter.fastRelease = fast
            /\ peakLimiter.gain =
                   IF RLess(R(Threshold), x)
                   THEN RAdd(g, RMul(AttackAlpha,
                                     RSub(RMul(R(Threshold), <<x[2], x[1]>>), g)))
                   ELSE RAdd(g, RMul(relAlpha, RSub(R(1), g)))

\* A sample whose input is above the threshold while input times gain is not,
\* the gain having been reduced by an earlier peak and partly released.
C25_Witness ==
    /\ tailSeen.samples > 0
    /\ RLess(R(Threshold), RAbs(tailSeen.scaled))
    /\ ~RLess(R(Threshold), RMul(RAbs(tailSeen.scaled), tailSeen.gainBefore))
    /\ RLess(tailSeen.gainBefore, R(1))
    /\ peakLimiter.gain # tailSeen.gainBefore

\* C24 (as claimed): burstPhase is within [0, 1] in every state, and once more
\* than ceil((5 + 15 * latchedDuration) * fs / 1000) calls have been made
\* since the last trigger (the triggering call included) the generator
\* returns 0, whatever the latched parameters are.
C24_PhaseBoundedBurstEnds ==
    /\ RLeq(R(0), burst.burstPhase)
    /\ RLeq(burst.burstPhase, R(1))
    /\ burstUsed.latched # <<>> =>
           LET ds == DurationSamples(burstUsed.latched[2])
               ceil == (ds[1] + ds[2] - 1) \div ds[2]
           IN  burstUsed.steps > ceil => burstUsed.out.silent

\* C23: until the scheduler is destroyed, the pointers held by the pending
\* queue, the new slot and the old slot are pairwise distinct, the old slot is
\* not empty, and the objects they point to are exactly the live ones (so an
\* object that has left all three has been freed); no object is freed twice or
\* dereferenced after it was freed; every allocated object is live or freed,
\* and after the destructor none is live.
C23_ExclusiveOwnership ==
    /\ ~heap.destroyed =>
           /\ Cardinality(Range(References(fm))) = Len(References(fm))
           /\ ~IsNull(fm.oldFrameRequest)
           /\ heap.live = Range(References(fm))
    /\ heap.destroyed => heap.live = {}
    /\ ~heap.doubleFree
    /\ ~heap.useAfterFree
    /\ heap.live \cap heap.freed = {}
    /\ heap.live \cup heap.freed = 0..numQueued

\* The first old request has been replaced and freed, a purge has freed a
\* request, and the scheduler still holds a pending request and a crossfade.
C23_Witness ==
    /\ ~heap.destroyed
    /\ anyPurge
    /\ 0 \in heap.freed
    /\ Cardinality(heap.freed) >= 2
    /\ ~IsNull(fm.newFrameRequest)

\* C26: after resonate calls with frequency <= 0 or bandwidth <= 0, each of
\* the bandpass, all-pole and notch resonators and the 4th-order resonator has
\* returned its input, and the integrator states of every 2nd-order section
\* (both stages of the 4th-order one included) are what they were before the
\* calls, so that is the state the next call with positive parameters starts
\* from.
C26_BypassFreezes ==
    (/\ resSeen.calls > 0
     /\ RLeq(resSeen.frequency, R(0)) \/ RLeq(resSeen.bandwidth, R(0))) =>
        /\ \A n \in SecondOrder \cup {"fourth"} : resSeen.out[n] = resSeen.in
        /\ Integrators(res) = resSeen.before

\* Bypassed calls (positive frequency, bandwidth 0) on resonators whose
\* integrators an earlier call has left non-zero.
C26_Witness ==
    /\ resSeen.calls > 1
    /\ RLess(R(0), resSeen.frequency)
    /\ resSeen.bandwidth = R(0)
    /\ \A n \in SecondOrder :
           resSeen.before[n][1] # R(0) /\ resSeen.before[n][2] # R(0)
    /\ \A k \in 1..4 : resSeen.before.fourth[k] # R(0)
    /\ resSeen.out.fourth = resSeen.in

\* C27: if the consumer keeps calling getCurrentFrame and no purge occurs,
\* every queued request is eventually dequeued into the new slot and
\* eventually promoted to the old slot, whatever its minNumSamples and
\* numFadeSamples.  (Requests are promoted in the order queued, so the old
\* slot holding request i or a later one means request i was promoted.)
C27_EveryRequestServed ==
    \A i \in 1..MaxLiveQueued :
        /\ (numQueued >= i) ~> (\E k \in 1..Len(dequeued) : dequeued[k][1] = i)
        /\ (numQueued >= i) ~> (fm.oldFrameRequest.id >= i)

C29_CurrentIsOld ==
    IsNull(fm.newFrameRequest) => fm.curFrame = fm.oldFrameRequest.frame

\* C29, amended: ... equals the old slot's frame in every parameter that
\* steps instantly, and in every other parameter to within the rounding of
\* the last interpolated sample old + (target - old) * 1: the two rounded
\* operations leave |current - target| <= 2^-MantissaBits *
\* (|target - old| + |current|).
C29_CurrentIsOldToRounding ==
    IsNull(fm.newFrameRequest) =>
        \A i \in Params :
            LET current == fm.curFrame[i]
                target == fm.oldFrameRequest.frame[i]
                old == fadeFrom[i]
            IN  IF i \in Whitelist
                THEN current = target
                ELSE RLeq(RMul(R(Pow2(MantissaBits)), RAbs(RSub(current, target))),
                          RAdd(RAbs(RSub(target, old)), RAbs(current)))

\* A crossfade has ended and the request was promoted with the current frame
\* one rounding away from its frame.
C29_Witness ==
    /\ lastStep = "promote"
    /\ IsNull(fm.newFrameRequest)
    /\ fm.curFrame["cf1"] # fm.oldFrameRequest.frame["cf1"]
    /\ fm.curFrame["burstAmplitude"] = fm.oldFrameRequest.frame["burstAmplitude"]

\* C30: whenever getCurrentFrame has returned null (the scheduler starved),
\* the first getCurrentFrame call after a subsequent queueFrame dequeues the
\* request and returns a non-null frame, however many null-returning calls
\* happened in between: sampleCounter never wraps around to a value
\* <= oldFrameRequest->minNumSamples.
C30_StarvedDequeuesAtOnce ==
    [][(/\ lastStep \in {"starve", "hold"}
        /\ fm.curFrameIsNULL
        /\ lastStep' = "queue"
        => /\ UpdateBranch(fm') = "dequeue"
           /\ ~updateCurrentFrame(smoothVariant, fm').curFrameIsNULL)]_vars

====
